---- MODULE Spec2Model ----
(***************************************************************************)
(* Model of the lyricsiq quiz generator (scripts/generate-quiz.js and its  *)
(* copy in scripts/create-quiz.js) and of the placeholder scan of the quiz *)
(* view (src/components/QuizView.jsx).                                     *)
(*                                                                         *)
(* A string is a sequence of one-character strings.  Offsets kept in the   *)
(* program's records (position, index) are the 0-based offsets of the      *)
(* JavaScript code; Substring converts to the 1-based sequences of TLA+.   *)
(***************************************************************************)
EXTENDS Integers, Sequences, FiniteSets, TLC

----------------------------------------------------------------------------
(* Bounds of the input space *)

\* longest generated text, counted in vocabulary pieces
MaxPieces == 3

\* largest value given to --blank-count / passed as count
MaxCount == 3

\* largest number of candidate tokens the blank count is determined for
MaxWords == 180

\* longest text given to compareAnswers as the user's answer
MaxAnswerLen == 3

\* largest number of score entries written to storage
MaxSaves == 12

\* largest number of quiz submissions in one session of the app
MaxSubmissions == 2

\* largest number of blanks of a scored quiz
MaxBlanks == 40

----------------------------------------------------------------------------
(* Characters *)

UpperCase == <<"A","B","C","D","E","F","G","H","I","J","K","L","M",
               "N","O","P","Q","R","S","T","U","V","W","X","Y","Z">>

LowerCase == <<"a","b","c","d","e","f","g","h","i","j","k","l","m",
               "n","o","p","q","r","s","t","u","v","w","x","y","z">>

Digits == <<"0","1","2","3","4","5","6","7","8","9">>

Range(s) == {s[i] : i \in 1..Len(s)}

DigitChars == Range(Digits)

IsDigit(c) == c \in DigitChars

\* \w of a JavaScript regular expression: [A-Za-z0-9_]
WordChars == Range(UpperCase) \cup Range(LowerCase) \cup Range(Digits) \cup {"_"}

IsWordChar(c) == c \in WordChars

\* the character class [\w'-]
InWordClass(c) == IsWordChar(c) \/ c \in {"'", "-"}

\* the characters String.prototype.trim removes, as far as texts here use them
IsWhitespace(c) == c \in {" ", "\t", "\r", "\n"}

\* the lower-case letter of each upper-case letter
LowerOf == [c \in Range(UpperCase) |->
              LowerCase[CHOOSE i \in 1..Len(UpperCase) : UpperCase[i] = c]]

ToLowerChar(c) == IF c \in DOMAIN LowerOf THEN LowerOf[c] ELSE c

\* String.prototype.toLowerCase
toLowerCase(s) == [i \in 1..Len(s) |-> ToLowerChar(s[i])]

Min(a, b) == IF a < b THEN a ELSE b

Max(a, b) == IF a > b THEN a ELSE b

SetMax(S) == CHOOSE x \in S : \A y \in S : y <= x

\* String.prototype.substring(a, b): arguments clamped to 0..length, swapped when a > b
Substring(s, a, b) ==
  LET ca == Max(0, Min(a, Len(s)))
      cb == Max(0, Min(b, Len(s)))
  IN  SubSeq(s, Min(ca, cb) + 1, Max(ca, cb))

\* slice with the end index taken as inclusive
Slice0_inclusive(s, end) ==
  LET e == IF end < 0 THEN Max(Len(s) + end + 1, 0) ELSE Min(end + 1, Len(s))
  IN  SubSeq(s, 1, e)

\* Array.prototype.slice(0, end): a negative end counts from the end of the array
Slice0(s, end) ==
  LET e == IF end < 0 THEN Max(Len(s) + end, 0) ELSE Min(end, Len(s))
  IN  SubSeq(s, 1, e)

RECURSIVE Flatten(_)
Flatten(ss) == IF ss = <<>> THEN <<>> ELSE Head(ss) \o Flatten(Tail(ss))

\* String.prototype.split('\n')
RECURSIVE SplitLines(_)
SplitLines(s) ==
  IF \A i \in 1..Len(s) : s[i] # "\n"
    THEN <<s>>
    ELSE LET i == CHOOSE k \in 1..Len(s) : s[k] = "\n" /\ \A j \in 1..(k-1) : s[j] # "\n"
         IN  <<SubSeq(s, 1, i - 1)>> \o SplitLines(SubSeq(s, i + 1, Len(s)))

\* Array.prototype.join('\n')
RECURSIVE JoinLines(_)
JoinLines(ls) ==
  IF ls = <<>> THEN <<>>
  ELSE IF Len(ls) = 1 THEN ls[1]
  ELSE ls[1] \o <<"\n">> \o JoinLines(Tail(ls))

\* Number -> decimal string, as a template literal formats a non-negative integer
RECURSIVE ToDecimal(_)
ToDecimal(n) ==
  IF n < 10 THEN <<Digits[n + 1]>>
  ELSE ToDecimal(n \div 10) \o <<Digits[(n % 10) + 1]>>

DigitValue(c) == (CHOOSE i \in 1..Len(Digits) : Digits[i] = c) - 1

\* parseInt of a string of decimal digits
RECURSIVE ParseInt(_)
ParseInt(ds) ==
  IF Len(ds) = 1 THEN DigitValue(ds[1])
  ELSE 10 * ParseInt(SubSeq(ds, 1, Len(ds) - 1)) + DigitValue(ds[Len(ds)])

----------------------------------------------------------------------------
(* extractWords *)

commonWords == <<
  <<"t","h","e">>, <<"a","n","d">>, <<"b","u","t">>, <<"f","o","r">>,
  <<"w","i","t","h">>, <<"f","r","o","m">>, <<"t","h","a","t">>,
  <<"t","h","i","s">>, <<"h","a","v","e">>, <<"h","a","s">>,
  <<"w","a","s">>, <<"w","e","r","e">> >>

commonWordSet == Range(commonWords)

\* is the character at 0-based offset i of s a \w character (FALSE outside s)
WordCharAt(s, i) == i >= 0 /\ i < Len(s) /\ IsWordChar(s[i + 1])

\* \b holds at offset i
WordBoundary(s, i) == WordCharAt(s, i - 1) # WordCharAt(s, i)

\* end of the longest run of [\w'-] characters that starts at offset i
RECURSIVE ClassRunEnd(_, _)
ClassRunEnd(s, i) ==
  IF i < Len(s) /\ InWordClass(s[i + 1]) THEN ClassRunEnd(s, i + 1) ELSE i

\* end offset of the match of /\b[\w'-]+\b/ at offset i, or -1: the greedy run
\* backtracks to the last offset at which \b holds
WordMatchEnd(s, i) ==
  LET ends == {j \in (i + 1)..ClassRunEnd(s, i) : WordBoundary(s, j)}
  IN  IF WordBoundary(s, i) /\ ends # {} THEN SetMax(ends) ELSE -1

\* the end offset reported as the index of the match
RECURSIVE WordMatches_indexAtEnd(_, _)
WordMatches_indexAtEnd(s, i) ==
  IF i >= Len(s) THEN <<>>
  ELSE LET e == WordMatchEnd(s, i)
       IN  IF e = -1 THEN WordMatches_indexAtEnd(s, i + 1)
           ELSE <<[text |-> Substring(s, i, e), index |-> e]>> \o WordMatches_indexAtEnd(s, e)

\* [...line.matchAll(/\b[\w'-]+\b/g)] from offset i on
RECURSIVE WordMatches(_, _)
WordMatches(s, i) ==
  IF i >= Len(s) THEN <<>>
  ELSE LET e == WordMatchEnd(s, i)
       IN  IF e = -1 THEN WordMatches(s, i + 1)
           ELSE <<[text |-> Substring(s, i, e), index |-> i]>> \o WordMatches(s, e)

\* !line.trim()
IsBlankLine(line) == \A i \in 1..Len(line) : IsWhitespace(line[i])

\* line.match(/^\[.*\]$/): '.' does not match a line terminator
IsSectionMarker(line) ==
  /\ Len(line) >= 2
  /\ line[1] = "["
  /\ line[Len(line)] = "]"
  /\ \A i \in 2..(Len(line) - 1) : line[i] # "\r"

\* words of two characters kept
LineWords_shortKept(line, lineIndex) ==
  IF IsBlankLine(line) \/ IsSectionMarker(line) THEN <<>>
  ELSE LET ms   == WordMatches(line, 0)
           keep == SelectSeq(ms, LAMBDA m :
                     /\ ~(Len(m.text) < 2)
                     /\ toLowerCase(m.text) \notin commonWordSet)
       IN  [k \in 1..Len(keep) |->
             [word |-> keep[k].text, lineIndex |-> lineIndex,
              position |-> keep[k].index, length |-> Len(keep[k].text)]]

\* the tokens one line contributes
LineWords(line, lineIndex) ==
  IF IsBlankLine(line) \/ IsSectionMarker(line) THEN <<>>
  ELSE LET ms   == WordMatches(line, 0)
           keep == SelectSeq(ms, LAMBDA m :
                     /\ ~(Len(m.text) <= 2)
                     /\ toLowerCase(m.text) \notin commonWordSet)
       IN  [k \in 1..Len(keep) |->
             [word |-> keep[k].text, lineIndex |-> lineIndex,
              position |-> keep[k].index, length |-> Len(keep[k].text)]]

\* the lines visited from the last to the first
extractWords_lastLineFirst(lyrics) ==
  LET lines == SplitLines(lyrics)
  IN  Flatten([k \in 1..Len(lines) |->
                 LineWords(lines[Len(lines) - k + 1], Len(lines) - k)])

extractWords(lyrics) ==
  LET lines == SplitLines(lyrics)
  IN  Flatten([k \in 1..Len(lines) |-> LineWords(lines[k], k - 1)])

----------------------------------------------------------------------------
(* selectBlanks *)

\* the pairs of elements a comparator is called on while s is sorted
Pairs(s) == Range(s) \X Range(s)

\* Array.prototype.sort with a consistent comparator cmp: stable, a before b
\* when cmp(a, b) < 0, input order kept between elements that compare equal
StableSort(s, cmp) ==
  LET n == Len(s)
      rank(i) == Cardinality({j \in 1..n : cmp[<<s[j], s[i]>>] < 0})
                 + Cardinality({j \in 1..(i - 1) :
                                  ~(cmp[<<s[j], s[i]>>] < 0) /\ ~(cmp[<<s[i], s[j]>>] < 0)})
                 + 1
  IN  [k \in 1..n |-> s[CHOOSE i \in 1..n : rank(i) = k]]

\* shortest first
compareLength_ascending(a, b) == a.length - b.length

\* (a, b) => b.length - a.length
compareLength(a, b) == b.length - a.length

\* the table counting exact spellings, the lower-casing forgotten in the count
frequencyTable_caseSensitive(words) ==
  [w \in {toLowerCase(words[i].word) : i \in 1..Len(words)} |->
     Cardinality({i \in 1..Len(words) : words[i].word = w})]

\* the frequency table built by words.forEach
frequencyTable(words) ==
  [w \in {toLowerCase(words[i].word) : i \in 1..Len(words)} |->
     Cardinality({i \in 1..Len(words) : toLowerCase(words[i].word) = w})]

\* (a, b) => frequency[b.word.toLowerCase()] - frequency[a.word.toLowerCase()]
compareFrequency(frequency, a, b) ==
  frequency[toLowerCase(b.word)] - frequency[toLowerCase(a.word)]

\* the final sort comparing offsets only
comparePosition_offsetOnly(a, b) == a.position - b.position

\* the comparator of the final sort: line order, then offset in the line
comparePosition(a, b) ==
  IF a.lineIndex # b.lineIndex THEN a.lineIndex - b.lineIndex
  ELSE a.position - b.position

\* [...words].sort(() => Math.random() - 0.5): the comparator answers at random,
\* so the sort may leave the elements in any order
RandomOrders(words) ==
  {[i \in 1..Len(words) |-> words[p[i]]] : p \in Permutations(1..Len(words))}

\* an unrecognized strategy falling into the important case
strategyOrders_unknownImportant(words, strategy) ==
  CASE strategy = "random" -> RandomOrders(words)
    [] strategy = "frequent"  ->
         {StableSort(words, [p \in Pairs(words) |->
                               compareFrequency(frequencyTable(words), p[1], p[2])])}
    [] OTHER                  -> {StableSort(words, [p \in Pairs(words) |-> compareLength(p[1], p[2])])}

\* the orders the strategy's sort can produce, before slice
strategyOrders(words, strategy) ==
  CASE strategy = "important" -> {StableSort(words, [p \in Pairs(words) |-> compareLength(p[1], p[2])])}
    [] strategy = "frequent"  ->
         {StableSort(words, [p \in Pairs(words) |->
                               compareFrequency(frequencyTable(words), p[1], p[2])])}
    [] OTHER                  -> RandomOrders(words)

\* the set of values selectBlanks(words, count, strategy) can return
selectBlanks(words, count, strategy) ==
  IF Len(words) = 0 THEN {<<>>}
  ELSE {StableSort(Slice0(o, count), [p \in Pairs(words) |-> comparePosition(p[1], p[2])]) :
          o \in strategyOrders(words, strategy)}

----------------------------------------------------------------------------
(* generateQuizLyrics *)

Underscores == <<"_", "_", "_", "_", "_">>

\* `_____${blankId}_____`
placeholder(blankId) == Underscores \o ToDecimal(blankId) \o Underscores

\* { ...blank, blankId: index }
withBlankId(blank, index) ==
  [word |-> blank.word, lineIndex |-> blank.lineIndex, position |-> blank.position,
   length |-> blank.length, blankId |-> index]

\* blanksMap[lineIndex], in the order the blanks were pushed
blanksMap(blanks, lineIndex) ==
  SelectSeq([i \in 1..Len(blanks) |-> withBlankId(blanks[i], i - 1)],
            LAMBDA b : b.lineIndex = lineIndex)

\* the blanks of a line processed from start to end
compareBlankDesc_ascending(a, b) == a.position - b.position

\* (a, b) => b.position - a.position
compareBlankDesc(a, b) == b.position - a.position

\* one step of lineBlanks.forEach
replaceBlank(modifiedLine, blank) ==
  LET before == Substring(modifiedLine, 0, blank.position)
      after  == Substring(modifiedLine, blank.position + Len(blank.word), Len(modifiedLine))
  IN  before \o placeholder(blank.blankId) \o after

RECURSIVE replaceBlanks(_, _)
replaceBlanks(line, lineBlanks) ==
  IF lineBlanks = <<>> THEN line
  ELSE replaceBlanks(replaceBlank(line, Head(lineBlanks)), Tail(lineBlanks))

quizLine(line, lineIndex, blanks) ==
  LET lineBlanks == blanksMap(blanks, lineIndex)
  IN  IF lineBlanks = <<>> THEN line
      ELSE replaceBlanks(line, StableSort(lineBlanks, [p \in Pairs(lineBlanks) |-> compareBlankDesc(p[1], p[2])]))

\* empty lines left out of the rejoined text
generateQuizLyrics_emptyLinesDropped(lyrics, blanks) ==
  LET lines == SplitLines(lyrics)
  IN  JoinLines(SelectSeq([k \in 1..Len(lines) |-> quizLine(lines[k], k - 1, blanks)],
                          LAMBDA l : l # <<>>))

generateQuizLyrics(lyrics, blanks) ==
  LET lines == SplitLines(lyrics)
  IN  JoinLines([k \in 1..Len(lines) |-> quizLine(lines[k], k - 1, blanks)])

----------------------------------------------------------------------------
(* What selectBlanks and generateQuizLyrics do to the arrays and token       *)
(* objects they are given.  The arrays allocated so far are a sequence, an   *)
(* array's address its place in it; address 1 is the words argument.         *)

\* the spread leaving out the copy: the same array under a second name
spreadCopy_sameArray(arrays, a) == [arrays |-> arrays, ref |-> a]

\* [...array]: a new array with the same elements
spreadCopy(arrays, a) == [arrays |-> Append(arrays, arrays[a]), ref |-> Len(arrays) + 1]

\* array.sort(cmp): the array at address a is reordered in place
sortInPlace(arrays, a, sorted) == [arrays EXCEPT ![a] = sorted]

\* array.slice(0, end): a new array
sliceCopy(arrays, a, end) ==
  [arrays |-> Append(arrays, Slice0(arrays[a], end)), ref |-> Len(arrays) + 1]

\* the runs of selectBlanks: the words array after the call and the value returned
selectBlanksEffect(words, count, strategy) ==
  IF Len(words) = 0 THEN {[words |-> words, result |-> <<>>]}
  ELSE LET copy == spreadCopy(<<words>>, 1)
       IN  {LET sorted == sortInPlace(copy.arrays, copy.ref, o)
                sliced == sliceCopy(sorted, copy.ref, count)
                final  == sortInPlace(sliced.arrays, sliced.ref,
                            StableSort(sliced.arrays[sliced.ref],
                                       [p \in Pairs(words) |-> comparePosition(p[1], p[2])]))
            IN  [words |-> final[1], result |-> final[sliced.ref]] :
              o \in strategyOrders(copy.arrays[copy.ref], strategy)}

\* blanksMap[blank.lineIndex].push({ ...blank, blankId: index }): the object
\* pushed is a new one, the blank itself is as it was
annotateBlank(blank, index) == [blank |-> blank, pushed |-> withBlankId(blank, index)]

\* generateQuizLyrics: the blanks array after the call and the text returned
generateQuizLyricsEffect(lyrics, blanks) ==
  [blanks |-> [i \in 1..Len(blanks) |-> annotateBlank(blanks[i], i - 1).blank],
   text   |-> generateQuizLyrics(lyrics, blanks)]

\* the token list after a call that was given some of its token objects:
\* before and after are those objects before and after the call
tokensAfter(words, before, after) ==
  [k \in 1..Len(words) |->
     IF \E i \in 1..Len(before) : before[i] = words[k]
     THEN after[CHOOSE i \in 1..Len(before) : before[i] = words[k]]
     ELSE words[k]]

----------------------------------------------------------------------------
(* main *)

(* IEEE 754 double arithmetic of Math.floor(allWords.length * ratio).  A     *)
(* binary number is a sequence of bits, least significant first.             *)

SignificandBits == 53

RECURSIVE ToBits(_)
ToBits(n) == IF n = 0 THEN <<>> ELSE <<n % 2>> \o ToBits(n \div 2)

RECURSIVE FromBits(_)
FromBits(b) == IF b = <<>> THEN 0 ELSE b[1] + 2 * FromBits(Tail(b))

\* the low w bits of n
Padded(n, w) == [i \in 1..w |-> (n \div (2 ^ (i - 1))) % 2]

\* bits are processed a chunk at a time
ChunkBits == 8

\* without leading zero bits
Normalized(b) ==
  LET ones == {i \in 1..Len(b) : b[i] = 1}
  IN  SubSeq(b, 1, IF ones = {} THEN 0 ELSE CHOOSE i \in ones : \A j \in ones : j <= i)

\* b + 1
Increment(b) ==
  LET zeros == {i \in 1..Len(b) : b[i] = 0}
      z     == IF zeros = {} THEN Len(b) + 1 ELSE CHOOSE i \in zeros : \A j \in zeros : i <= j
  IN  [i \in 1..Max(Len(b), z) |-> IF i < z THEN 0 ELSE IF i = z THEN 1 ELSE b[i]]

\* b * 2^k
ShiftLeft(b, k) == [i \in 1..k |-> 0] \o b

\* b * n + carry for a small integer n
RECURSIVE MulSmall(_, _, _)
MulSmall(b, n, carry) ==
  IF b = <<>> THEN ToBits(carry)
  ELSE LET w == Min(ChunkBits, Len(b))
           t == FromBits(SubSeq(b, 1, w)) * n + carry
       IN  Padded(t % (2 ^ w), w) \o MulSmall(SubSeq(b, w + 1, Len(b)), n, t \div (2 ^ w))

\* long division of b by a small integer d, from the top bits down, rem carried in
RECURSIVE DivSmall(_, _, _)
DivSmall(b, d, rem) ==
  IF b = <<>> THEN <<>>
  ELSE LET w == Min(ChunkBits, Len(b))
           t == rem * (2 ^ w) + FromBits(SubSeq(b, Len(b) - w + 1, Len(b)))
       IN  DivSmall(SubSeq(b, 1, Len(b) - w), d, t % d) \o Padded(t \div d, w)

RECURSIVE RemSmall(_, _, _)
RemSmall(b, d, rem) ==
  IF b = <<>> THEN rem
  ELSE LET w == Min(ChunkBits, Len(b))
       IN  RemSmall(SubSeq(b, 1, Len(b) - w), d,
                    (rem * (2 ^ w) + FromBits(SubSeq(b, Len(b) - w + 1, Len(b)))) % d)

\* the double nearest to the decimal literal p/100 (round to nearest, ties to
\* even), as [sig, exp] with value sig * 2^-exp and a 53-bit significand
DecimalToDouble(p) ==
  LET e   == CHOOSE k \in 1..64 :
               Len(Normalized(DivSmall(ShiftLeft(ToBits(p), k), 100, 0))) = SignificandBits
      num == ShiftLeft(ToBits(p), e)
      q   == Normalized(DivSmall(num, 100, 0))
      r   == RemSmall(num, 100, 0)
      up  == 2 * r > 100 \/ (2 * r = 100 /\ q[1] = 1)
  IN  [sig |-> IF up THEN Increment(q) ELSE q, exp |-> e]

\* Math.floor(n * x) for an integer n >= 0 and a double 0 < x < 1: the exact
\* product rounded to 53 significant bits (ties to even), then truncated
FloorOfProduct(n, x) ==
  IF n = 0 THEN 0
  ELSE LET p    == MulSmall(x.sig, n, 0)
           s    == Max(Len(p) - SignificandBits, 0)
           q    == SubSeq(p, s + 1, Len(p))
           up   == /\ s > 0
                   /\ p[s] = 1
                   /\ ((\E i \in 1..(s - 1) : p[i] = 1) \/ q[1] = 1)
           r    == IF up THEN Increment(q) ELSE q
           drop == x.exp - s
       IN  FromBits(SubSeq(r, drop + 1, Len(r)))

\* the literals of difficultyRatios, in hundredths
ratioPercent == [easy |-> 10, medium |-> 20, hard |-> 35]

\* the literal of || 0.20, in hundredths
defaultRatioPercent == 20

\* difficultyRatios, as doubles
difficultyRatios == [d \in DOMAIN ratioPercent |-> DecimalToDouble(ratioPercent[d])]

defaultRatio == DecimalToDouble(defaultRatioPercent)

\* difficultyRatios[difficulty] || 0.20
ratioOf(difficulty) ==
  IF difficulty \in DOMAIN difficultyRatios THEN difficultyRatios[difficulty]
  ELSE defaultRatio

MinBlanks == 5

\* the preset used whatever --blank-count says
determineBlankCount_presetOnly(opt, difficulty, n) ==
  Min(Max(MinBlanks, FloorOfProduct(n, ratioOf(difficulty))), n)

\* the count main passes to selectBlanks; opt is <<>> when --blank-count is
\* absent and <<n>> when it parsed to n; !blankCount is true for absent and for 0
determineBlankCount(opt, difficulty, n) ==
  LET preset == Max(MinBlanks, FloorOfProduct(n, ratioOf(difficulty)))
      chosen == IF opt = <<>> \/ opt[1] = 0 THEN preset ELSE opt[1]
  IN  Min(chosen, n)

\* ids counted from 1
answerKey_idFromOne(selectedBlanks) ==
  [i \in 1..Len(selectedBlanks) |->
     [id |-> i, answer |-> selectedBlanks[i].word,
      lineIndex |-> selectedBlanks[i].lineIndex,
      position |-> selectedBlanks[i].position]]

\* quizData.blanks
answerKey(selectedBlanks) ==
  [i \in 1..Len(selectedBlanks) |->
     [id |-> i - 1, answer |-> selectedBlanks[i].word,
      lineIndex |-> selectedBlanks[i].lineIndex,
      position |-> selectedBlanks[i].position]]

----------------------------------------------------------------------------
(* renderLyrics of the quiz view: the scan for /_____(\d+)_____/g *)

UnderscoresAt(s, i) ==
  /\ i + Len(Underscores) <= Len(s)
  /\ \A k \in 1..Len(Underscores) : s[i + k] = "_"

RECURSIVE DigitRunEnd(_, _)
DigitRunEnd(s, i) ==
  IF i < Len(s) /\ IsDigit(s[i + 1]) THEN DigitRunEnd(s, i + 1) ELSE i

\* end offset of the match of the blank pattern at offset i, or -1
BlankMatchEnd(s, i) ==
  IF ~UnderscoresAt(s, i) THEN -1
  ELSE LET d == DigitRunEnd(s, i + Len(Underscores))
       IN  IF d > i + Len(Underscores) /\ UnderscoresAt(s, d)
             THEN d + Len(Underscores) ELSE -1

\* the matches blankPattern.exec finds in a line, from offset i on
RECURSIVE BlankMatches(_, _)
BlankMatches(s, i) ==
  IF i >= Len(s) THEN <<>>
  ELSE LET e == BlankMatchEnd(s, i)
       IN  IF e = -1 THEN BlankMatches(s, i + 1)
           ELSE <<[index |-> i, end |-> e,
                   blankId |-> ParseInt(Substring(s, i + Len(Underscores),
                                                  e - Len(Underscores)))]>>
                \o BlankMatches(s, e)

\* the matches on every line of quiz.lyrics
lineMatches(quizText) ==
  LET lines == SplitLines(quizText)
  IN  [k \in 1..Len(lines) |-> BlankMatches(lines[k], 0)]

\* quiz.blanks.find((b) => b.id === blankId) finds a record
hasRecord(blanks, blankId) == \E i \in 1..Len(blanks) : blanks[i].id = blankId

\* blank.answer is read for every match: the render throws on a match without record
renderThrows(quizText, blanks) ==
  LET ms == lineMatches(quizText)
  IN  \E k \in 1..Len(ms) : \E m \in 1..Len(ms[k]) : ~hasRecord(blanks, ms[k][m].blankId)

\* the blank ids of the input fields, line by line, left to right
inputFields(quizText) ==
  LET ms == lineMatches(quizText)
  IN  [k \in 1..Len(ms) |-> [m \in 1..Len(ms[k]) |-> ms[k][m].blankId]]

----------------------------------------------------------------------------
(* textNormalize: normalizeText, compareAnswers *)

\* the value undefined, where a string is expected
Undefined == <<"undefined">>

\* !text
Falsy(text) == text = Undefined \/ text = <<>>

\* [\u2019\u02BC\u00B4]
ApostropheVariants == {"U+2019", "U+02BC", "U+00B4"}

\* [\u2013\u2014\u2212]
DashVariants == {"U+2013", "U+2014", "U+2212"}

\* one whitespace character taken from each end
trim_oneEach(s) ==
  LET a == IF s # <<>> /\ IsWhitespace(s[1]) THEN 2 ELSE 1
      b == IF Len(s) >= a /\ IsWhitespace(s[Len(s)]) THEN Len(s) - 1 ELSE Len(s)
  IN  SubSeq(s, a, b)

\* String.prototype.trim
trim(s) ==
  LET keep == {i \in 1..Len(s) : ~IsWhitespace(s[i])}
  IN  IF keep = {} THEN <<>>
      ELSE SubSeq(s, CHOOSE i \in keep : \A j \in keep : i <= j, SetMax(keep))

\* s.replace(/[chars]/g, c)
replaceAll(s, chars, c) == [i \in 1..Len(s) |-> IF s[i] \in chars THEN c ELSE s[i]]

\* the acute accent left as it is
normalizeText_acuteKept(text) ==
  IF Falsy(text) THEN <<>>
  ELSE replaceAll(replaceAll(toLowerCase(trim(text)), {"U+2019", "U+02BC"}, "'"),
                  DashVariants, "-")

normalizeText(text) ==
  IF Falsy(text) THEN <<>>
  ELSE replaceAll(replaceAll(toLowerCase(trim(text)), ApostropheVariants, "'"),
                  DashVariants, "-")

\* the arguments compared as they are
compareAnswers_raw(userAnswer, correctAnswer) == userAnswer = correctAnswer

compareAnswers(userAnswer, correctAnswer) ==
  normalizeText(userAnswer) = normalizeText(correctAnswer)

----------------------------------------------------------------------------
(* App.handleQuizSubmit and Results.renderLyricsWithAnswers *)

\* answers[id]
answerOf(answers, id) == IF id \in DOMAIN answers THEN answers[id] ELSE Undefined

\* x || ''
orEmpty(x) == IF Falsy(x) THEN <<>> ELSE x

\* quiz.blanks.find((b) => b.id === blankId), for an id that has a record
findBlank(blanks, blankId) ==
  blanks[CHOOSE i \in 1..Len(blanks) :
           /\ blanks[i].id = blankId
           /\ \A j \in 1..(i - 1) : blanks[j].id # blankId]

\* handleQuizSubmit: the ids of selectedQuiz.blanks.filter(...)
scoreCorrect(blanks, answers) ==
  {blanks[i].id : i \in {j \in 1..Len(blanks) :
       compareAnswers(orEmpty(answerOf(answers, blanks[j].id)), orEmpty(blanks[j].answer))}}

BlankLabel == <<"(", "b", "l", "a", "n", "k", ")">>

\* userAnswers[blankId]?.trim() || '(blank)'
shownAnswer(answers, blankId) ==
  LET raw     == answerOf(answers, blankId)
      trimmed == IF raw = Undefined THEN Undefined ELSE trim(raw)
  IN  IF Falsy(trimmed) THEN BlankLabel ELSE trimmed

\* userAnswer.toLowerCase() === blank.answer.toLowerCase()
isCorrect(answers, blank) ==
  toLowerCase(shownAnswer(answers, blank.id)) = toLowerCase(blank.answer)

\* the blank ids matched in the quiz text
matchedIds(quizText) ==
  LET ms == lineMatches(quizText)
  IN  UNION {{ms[k][m].blankId : m \in 1..Len(ms[k])} : k \in 1..Len(ms)}

\* renderLyricsWithAnswers: the mark of every blank shown
resultMarks(quizText, blanks, answers) ==
  [id \in matchedIds(quizText) |-> isCorrect(answers, findBlank(blanks, id))]

----------------------------------------------------------------------------
(* scoreStorage: the object stored under lyricsiq_scores is a function from   *)
(* quiz ids to sequences of score entries; {} is the empty function          *)

\* Math.round of 0 / 0
NaN == -1

\* null where a number is expected
JsonNull == -2

\* JSON.stringify then JSON.parse of a number: NaN is written as null
jsonNumber(x) == IF x = NaN THEN JsonNull ELSE x

\* the number a relational operator compares: null converts to 0
toNumber(x) == IF x = JsonNull THEN 0 ELSE x

\* a > b on numbers: false when either is NaN
greaterThan(a, b) == a # NaN /\ b # NaN /\ toNumber(a) > toNumber(b)

HistoryLimit == 10

\* scores.slice(0, n): the first n kept
sliceLast_first(s, n) == SubSeq(s, 1, Min(n, Len(s)))

\* scores.slice(-n)
sliceLast(s, n) == SubSeq(s, Max(Len(s) - n, 0) + 1, Len(s))

\* allScores[quizId] || []
getQuizScores(allScores, quizId) ==
  IF quizId \in DOMAIN allScores THEN allScores[quizId] ELSE <<>>

\* scores.reduce((best, current) => ...): score entries hold no wordAccuracy
\* field, so the second test compares undefined > undefined, which is false
RECURSIVE reduceBest(_, _)
reduceBest(best, rest) ==
  IF rest = <<>> THEN best
  ELSE IF greaterThan(Head(rest).percentage, best.percentage)
       THEN reduceBest(Head(rest), Tail(rest))
       ELSE reduceBest(best, Tail(rest))

\* <<>> for null
getBestScore(allScores, quizId) ==
  LET quizScores == getQuizScores(allScores, quizId)
  IN  IF Len(quizScores) = 0 THEN <<>>
      ELSE <<reduceBest(Head(quizScores), Tail(quizScores))>>

\* { ...scoreData, quizId, ... } as it is read back from storage; quizTitle,
\* artist, timestamp and date are written too and read by nothing
scoreEntry(quizId, scoreData) ==
  [quizId |-> quizId, correct |-> scoreData.correct, total |-> scoreData.total,
   percentage |-> jsonNumber(scoreData.percentage), answers |-> scoreData.answers]

\* the stored object after a saveScore call that returns true
saveScore(allScores, quizId, scoreData) ==
  LET pushed == Append(getQuizScores(allScores, quizId), scoreEntry(quizId, scoreData))
      kept   == IF Len(pushed) > HistoryLimit THEN sliceLast(pushed, HistoryLimit)
                ELSE pushed
  IN  [q \in DOMAIN allScores \cup {quizId} |-> IF q = quizId THEN kept ELSE allScores[q]]

----------------------------------------------------------------------------
(* App and QuizView *)

\* correct / total for integers 0 < correct <= total: the double nearest to
\* the quotient (ties to even), as [sig, exp] with value sig * 2^-exp
divide(correct, total) ==
  LET d   == Len(ToBits(total)) - Len(ToBits(correct))
      e   == IF correct * (2 ^ d) >= total THEN SignificandBits - 1 + d
             ELSE SignificandBits + d
      num == ShiftLeft(ToBits(correct), e)
      q   == Normalized(DivSmall(num, total, 0))
      r   == RemSmall(num, total, 0)
      up  == 2 * r > total \/ (2 * r = total /\ q[1] = 1)
  IN  [sig |-> IF up THEN Increment(q) ELSE q, exp |-> e]

\* Math.round(x * n) for an integer n > 0 and a double 0 < x <= 1: the exact
\* product rounded to 53 significant bits (ties to even), then rounded to the
\* nearest integer, halves upwards
RoundOfProduct(x, n) ==
  LET p    == MulSmall(x.sig, n, 0)
      s    == Max(Len(p) - SignificandBits, 0)
      q    == SubSeq(p, s + 1, Len(p))
      up   == /\ s > 0
              /\ p[s] = 1
              /\ ((\E i \in 1..(s - 1) : p[i] = 1) \/ q[1] = 1)
      r    == IF up THEN Increment(q) ELSE q
      drop == x.exp - s
      half == IF drop \in 1..Len(r) THEN r[drop] ELSE 0
  IN  FromBits(SubSeq(r, drop + 1, Len(r))) + half

\* Math.round((correct / total) * 100); 0 / 0 is NaN
roundPercent(correct, total) ==
  IF total = 0 THEN NaN
  ELSE IF correct = 0 THEN 0
  ELSE RoundOfProduct(divide(correct, total), 100)

\* the scoreData object of handleQuizSubmit
scoreData(blanks, submittedAnswers) ==
  LET correct == Cardinality(scoreCorrect(blanks, submittedAnswers))
  IN  [correct |-> correct, total |-> Len(blanks),
       percentage |-> roundPercent(correct, Len(blanks)), answers |-> submittedAnswers]

\* view === 'quiz' && selectedQuiz: QuizView is rendered
quizShown(v, quiz) == v = "quiz" /\ quiz # <<>>

\* view === 'results' && selectedQuiz && score: Results is rendered
resultsShown(v, quiz, sc) == v = "results" /\ quiz # <<>> /\ sc # <<>>

\* the answers state of QuizView after a render: useState(initialAnswers || {})
\* when the component is mounted, kept while it stays mounted
quizViewAnswers(wasShown, isShown, current, initialAnswers) ==
  IF ~isShown THEN <<>>
  ELSE IF wasShown THEN current
  ELSE initialAnswers

\* { ...prev, [blankId]: value }
setAnswer(prev, blankId, value) ==
  [k \in DOMAIN prev \cup {blankId} |-> IF k = blankId THEN value ELSE prev[k]]

\* Object.keys(answers).filter((key) => answers[key]?.trim()).length
filledCount(current) == Cardinality({k \in DOMAIN current : trim(current[k]) # <<>>})

\* the state object of encodeQuizState; btoa(JSON.stringify(state)) and
\* JSON.parse(atob(encoded)) carry it unchanged but for NaN
encodeQuizState(quiz, sc) ==
  [quizId |-> quiz.id,
   score  |-> IF sc = <<>> THEN <<>>
              ELSE <<[correct |-> sc[1].correct, total |-> sc[1].total,
                      percentage |-> jsonNumber(sc[1].percentage)]>>]

\* decodeQuizState of a ?quiz= parameter: <<>> when it throws
decodeQuizState(param) == IF param.kind = "encoded" THEN <<param.state>> ELSE <<>>

----------------------------------------------------------------------------
(* Input texts *)

\* Amazing grace how sweet the sound\n
AmazingGrace ==
  <<"A","m","a","z","i","n","g"," ","g","r","a","c","e"," ","h","o","w"," ","s","w","e","e","t"," ","t","h","e"," ","s","o","u","n","d","\n">>

\* [Chorus]\nLove is love\n
ChorusText ==
  <<"[","C","h","o","r","u","s","]","\n","L","o","v","e"," ","i","s"," ","l","o","v","e","\n">>

\* The cat sat on a mat.\n
CatText ==
  <<"T","h","e"," ","c","a","t"," ","s","a","t"," ","o","n"," ","a"," ","m","a","t",".","\n">>

\* grace love Love\nlove grace
RefrainText ==
  <<"g","r","a","c","e"," ","l","o","v","e"," ","L","o","v","e","\n","l","o","v","e"," ","g","r","a","c","e">>

\* _____1_____ love _____0_____ Love
LiteralText ==
  <<"_","_","_","_","_","1","_","_","_","_","_"," ","l","o","v","e"," ","_","_","_","_","_","0","_","_","_","_","_"," ","L","o","v","e">>

ScenarioTexts == {AmazingGrace, ChorusText, CatText, RefrainText, LiteralText}

\* the pieces generated texts are concatenated from: words, a stop word,
\* separators and a literal occurrence of the placeholder pattern
Vocabulary ==
  {<<"l","o","v","e">>,
   <<"L","o","v","e">>,
   <<"d","o","n","'","t">>,
   <<"t","h","e">>,
   <<" ">>,
   <<"\n">>,
   <<"_","_","_","_","_","0","_","_","_","_","_">>}

GeneratedTexts ==
  {Flatten(ps) : ps \in UNION {[1..k -> Vocabulary] : k \in 0..MaxPieces}}

Texts == ScenarioTexts \cup GeneratedTexts

Strategies == {"random", "important", "frequent", "shuffle"}

KnownStrategies == {"random", "important", "frequent"}

Difficulties == {"easy", "medium", "hard"}

Counts == {-1} \cup 0..MaxCount

----------------------------------------------------------------------------
(* State *)

VARIABLES
  lyrics,          \* songData.lyrics, the source text
  difficulty,      \* --difficulty
  optBlankCount,   \* --blank-count: <<>> when absent, <<n>> when given
  strategy,        \* --strategy
  allWords,        \* extractWords(lyrics)
  blankCount,      \* the count passed to selectBlanks
  selectedBlanks,  \* the value selectBlanks returned
  quizLyrics,      \* quizData.lyrics
  quizBlanks,      \* quizData.blanks
  fields,          \* blank ids of the input fields the quiz view rendered
  userAnswers,     \* App state: the answers object, blank id -> typed text
  correctAnswers,  \* handleQuizSubmit: ids of the blanks counted as correct
  marks,           \* Results: blank id -> isCorrect
  userAnswer,      \* first argument of compareAnswers
  correctAnswer,   \* second argument of compareAnswers
  equal,           \* the value compareAnswers returned
  normalized,      \* normalizeText(userAnswer)
  renormalized,    \* normalizeText(normalized)
  scores,          \* localStorage lyricsiq_scores: quiz id -> score entries
  savedEntries,    \* number of entries saveScore has written so far
  saveReturned,    \* what the last saveScore call returned: "none", "true", "false"
  view,            \* App state: 'selector', 'quiz' or 'results'
  selectedQuiz,    \* App state: <<>> for null, <<quiz>> otherwise
  score,           \* App state: <<>> for null, <<scoreData>> otherwise
  challengeData,   \* App state: <<>> for null, <<decoded state>> otherwise
  answers,         \* QuizView state, while the component is mounted
  sharedQuiz,      \* loadSharedQuiz: its status and what it awaits
  submitted,       \* how QuizView.handleSubmit last ended: "no" before any call
  pc

generatorVars == <<lyrics, difficulty, optBlankCount, strategy, allWords, blankCount,
                   selectedBlanks, quizLyrics, quizBlanks, fields>>

gradingVars == <<userAnswers, correctAnswers, marks>>

compareVars == <<userAnswer, correctAnswer, equal, normalized, renormalized>>

storageVars == <<scores, savedEntries, saveReturned>>

appVars == <<view, selectedQuiz, score, challengeData, answers, sharedQuiz, submitted>>

vars == <<generatorVars, gradingVars, compareVars, storageVars, appVars, pc>>

\* no quiz has been submitted
NotGrading ==
  /\ userAnswers = <<>>
  /\ correctAnswers = {}
  /\ marks = <<>>

\* nothing stored under lyricsiq_scores
NoScores ==
  /\ scores = <<>>
  /\ savedEntries = 0
  /\ saveReturned = "none"

\* the App component before it is mounted with its useState initial values
NoApp ==
  /\ view = "selector"
  /\ selectedQuiz = <<>>
  /\ score = <<>>
  /\ challengeData = <<>>
  /\ answers = <<>>
  /\ sharedQuiz = [status |-> "none"]
  /\ submitted = "no"

\* compareAnswers has not been called
NotComparing ==
  /\ userAnswer = <<>>
  /\ correctAnswer = <<>>
  /\ equal = FALSE
  /\ normalized = <<>>
  /\ renormalized = <<>>

\* a run of the generator script on a lyrics file
Init ==
  /\ lyrics \in Texts
  /\ strategy \in Strategies
  /\ \/ optBlankCount = <<>> /\ difficulty \in Difficulties
     \/ optBlankCount \in {<<n>> : n \in Counts} /\ difficulty = "medium"
  /\ allWords = <<>>
  /\ blankCount = 0
  /\ selectedBlanks = <<>>
  /\ quizLyrics = <<>>
  /\ quizBlanks = <<>>
  /\ fields = <<>>
  /\ NotGrading
  /\ NotComparing
  /\ NoScores
  /\ NoApp
  /\ pc = "start"

\* main(): tokenize, determine the count, select, encode, write the quiz record
Main ==
  /\ pc = "start"
  /\ lyrics # <<>>
  /\ LET words == extractWords(lyrics)
         count == determineBlankCount(optBlankCount, difficulty, Len(words))
     IN  \E selected \in selectBlanks(words, count, strategy) :
           /\ allWords' = words
           /\ blankCount' = count
           /\ selectedBlanks' = selected
           /\ quizLyrics' = generateQuizLyrics(lyrics, selected)
           /\ quizBlanks' = answerKey(selected)
  /\ pc' = "written"
  /\ UNCHANGED <<lyrics, difficulty, optBlankCount, strategy, fields,
                 gradingVars, compareVars,
                 storageVars, appVars>>

\* main(): 'Input file must contain a "lyrics" field' for an empty text
MainFails ==
  /\ pc = "start"
  /\ lyrics = <<>>
  /\ pc' = "failed"
  /\ UNCHANGED <<lyrics, difficulty, optBlankCount, strategy, allWords, blankCount,
                 selectedBlanks, quizLyrics, quizBlanks, fields,
                 gradingVars, compareVars,
                 storageVars, appVars>>

\* QuizView renders the written quiz: one input field per pattern match
RenderLyrics ==
  /\ pc = "written"
  /\ ~renderThrows(quizLyrics, quizBlanks)
  /\ fields' = inputFields(quizLyrics)
  /\ pc' = "rendered"
  /\ UNCHANGED <<lyrics, difficulty, optBlankCount, strategy, allWords, blankCount,
                 selectedBlanks, quizLyrics, quizBlanks,
                 gradingVars, compareVars,
                 storageVars, appVars>>

\* QuizView reads blank.answer of a match that has no record: TypeError
RenderLyricsThrows ==
  /\ pc = "written"
  /\ renderThrows(quizLyrics, quizBlanks)
  /\ pc' = "renderError"
  /\ UNCHANGED <<lyrics, difficulty, optBlankCount, strategy, allWords, blankCount,
                 selectedBlanks, quizLyrics, quizBlanks, fields,
                 gradingVars, compareVars,
                 storageVars, appVars>>

Next == Main \/ MainFails \/ RenderLyrics \/ RenderLyricsThrows

Spec == Init /\ [][Next]_vars

----------------------------------------------------------------------------
(* selectBlanks applied to every token list, count and strategy *)

InitSelect ==
  /\ lyrics \in Texts
  /\ strategy \in Strategies
  /\ blankCount \in Counts
  /\ allWords = extractWords(lyrics)
  /\ difficulty = "medium"
  /\ optBlankCount = <<>>
  /\ selectedBlanks = <<>>
  /\ quizLyrics = <<>>
  /\ quizBlanks = <<>>
  /\ fields = <<>>
  /\ NotGrading
  /\ NotComparing
  /\ NoScores
  /\ NoApp
  /\ pc = "select"

CallSelectBlanks ==
  /\ pc = "select"
  /\ selectedBlanks' \in selectBlanks(allWords, blankCount, strategy)
  /\ pc' = "selected"
  /\ UNCHANGED <<lyrics, difficulty, optBlankCount, strategy, allWords, blankCount,
                 quizLyrics, quizBlanks, fields,
                 gradingVars, compareVars,
                 storageVars, appVars>>

NextSelect == CallSelectBlanks

SpecSelect == InitSelect /\ [][NextSelect]_vars

----------------------------------------------------------------------------
(* selectBlanks, then generateQuizLyrics, with their effects on the token list *)

InitFrame ==
  /\ lyrics \in Texts
  /\ strategy \in Strategies
  /\ blankCount \in Counts
  /\ allWords = extractWords(lyrics)
  /\ difficulty = "medium"
  /\ optBlankCount = <<>>
  /\ selectedBlanks = <<>>
  /\ quizLyrics = <<>>
  /\ quizBlanks = <<>>
  /\ fields = <<>>
  /\ NotGrading
  /\ NotComparing
  /\ NoScores
  /\ NoApp
  /\ pc = "tokens"

RunSelectBlanks ==
  /\ pc = "tokens"
  /\ \E run \in selectBlanksEffect(allWords, blankCount, strategy) :
       /\ allWords' = run.words
       /\ selectedBlanks' = run.result
  /\ pc' = "blanksSelected"
  /\ UNCHANGED <<lyrics, difficulty, optBlankCount, strategy, blankCount,
                 quizLyrics, quizBlanks, fields, gradingVars, compareVars,
                 storageVars, appVars>>

RunGenerateQuizLyrics ==
  /\ pc = "blanksSelected"
  /\ LET run == generateQuizLyricsEffect(lyrics, selectedBlanks)
     IN  /\ allWords' = tokensAfter(allWords, selectedBlanks, run.blanks)
         /\ selectedBlanks' = run.blanks
         /\ quizLyrics' = run.text
  /\ pc' = "lyricsGenerated"
  /\ UNCHANGED <<lyrics, difficulty, optBlankCount, strategy, blankCount,
                 quizBlanks, fields, gradingVars, compareVars,
                 storageVars, appVars>>

NextFrame == RunSelectBlanks \/ RunGenerateQuizLyrics

SpecFrame == InitFrame /\ [][NextFrame]_vars

----------------------------------------------------------------------------
(* The blank count main determines, for every number of candidate tokens *)

\* "the\n" followed by n lines "love\n": a text with n candidate tokens
CountText(n) ==
  <<"t", "h", "e", "\n">> \o
  [i \in 1..(5 * n) |-> <<"l", "o", "v", "e", "\n">>[((i - 1) % 5) + 1]]

\* extractWords(CountText(n))
WordList(n) ==
  [i \in 1..n |->
     [word |-> <<"l", "o", "v", "e">>, lineIndex |-> i, position |-> 0, length |-> 4]]

InitCount ==
  /\ \E n \in 0..MaxWords : lyrics = CountText(n) /\ allWords = WordList(n)
  /\ optBlankCount \in {<<>>} \cup {<<n>> : n \in Counts}
  /\ difficulty \in Difficulties \cup {"extreme"}
  /\ strategy = "random"
  /\ blankCount = 0
  /\ selectedBlanks = <<>>
  /\ quizLyrics = <<>>
  /\ quizBlanks = <<>>
  /\ fields = <<>>
  /\ NotGrading
  /\ NotComparing
  /\ NoScores
  /\ NoApp
  /\ pc = "count"

\* main(): if (!blankCount) {...}; blankCount = Math.min(blankCount, allWords.length)
CallDetermineBlankCount ==
  /\ pc = "count"
  /\ blankCount' = determineBlankCount(optBlankCount, difficulty, Len(allWords))
  /\ pc' = "counted"
  /\ UNCHANGED <<lyrics, difficulty, optBlankCount, strategy, allWords,
                 selectedBlanks, quizLyrics, quizBlanks, fields,
                 gradingVars, compareVars,
                 storageVars, appVars>>

NextCount == CallDetermineBlankCount

SpecCount == InitCount /\ [][NextCount]_vars

----------------------------------------------------------------------------
(* extractWords applied to every text *)

\* [Intro] love me [Outro]
IntroText ==
  <<"[","I","n","t","r","o","]"," ","l","o","v","e"," ","m","e"," ","[","O","u","t","r","o","]">>

\* the pieces tokenizer texts are concatenated from: words, a stop word, a
\* short word, apostrophe, hyphen, brackets, a bracketed marker, separators
ExtractVocabulary ==
  {<<"l","o","v","e">>,
   <<"T","h","e">>,
   <<"i","s">>,
   <<"d","o","n","'","t">>,
   <<"'">>,
   <<"-">>,
   <<"[","x","]">>,
   <<"[">>,
   <<"]">>,
   <<" ">>,
   <<"\r">>,
   <<"\n">>}

ExtractTexts ==
  {AmazingGrace, ChorusText, CatText, RefrainText, IntroText} \cup
  {Flatten(ps) : ps \in UNION {[1..k -> ExtractVocabulary] : k \in 0..MaxPieces}}

InitExtract ==
  /\ lyrics \in ExtractTexts
  /\ allWords = <<>>
  /\ difficulty = "medium"
  /\ optBlankCount = <<>>
  /\ strategy = "random"
  /\ blankCount = 0
  /\ selectedBlanks = <<>>
  /\ quizLyrics = <<>>
  /\ quizBlanks = <<>>
  /\ fields = <<>>
  /\ NotGrading
  /\ NotComparing
  /\ NoScores
  /\ NoApp
  /\ pc = "extract"

CallExtractWords ==
  /\ pc = "extract"
  /\ allWords' = extractWords(lyrics)
  /\ pc' = "extracted"
  /\ UNCHANGED <<lyrics, difficulty, optBlankCount, strategy, blankCount,
                 selectedBlanks, quizLyrics, quizBlanks, fields,
                 gradingVars, compareVars,
                 storageVars, appVars>>

NextExtract == CallExtractWords

SpecExtract == InitExtract /\ [][NextExtract]_vars

----------------------------------------------------------------------------
(* A generated quiz answered, submitted and shown in the Results view *)

\* Don't stop love
DontStopText ==
  <<"D","o","n","'","t"," ","s","t","o","p"," ","l","o","v","e">>

\* well-known-story _____7_____
WellKnownText ==
  <<"w","e","l","l","-","k","n","o","w","n","-","s","t","o","r","y"," ","_","_","_","_","_","7","_","_","_","_","_">>

GradeTexts == {DontStopText, WellKnownText, ChorusText}

\* what a user may type for a blank whose answer is w: nothing, spaces, the
\* answer, the answer in lower case, padded with spaces, with typographic
\* apostrophes or dashes, or another word
TypedAnswers(w) ==
  {<<>>, <<" ">>, w, toLowerCase(w), <<" ">> \o w \o <<" ">>,
   replaceAll(w, {"'"}, "U+2019"), replaceAll(w, {"-"}, "U+2013"),
   <<"n", "o">>}

\* the answers objects for the blanks of a quiz: some blanks left untouched
AnswerSheets(blanks) ==
  LET ids   == {blanks[i].id : i \in 1..Len(blanks)}
      typed == UNION {TypedAnswers(blanks[i].answer) : i \in 1..Len(blanks)}
  IN  {f \in UNION {[D -> typed] : D \in SUBSET ids} :
         \A id \in DOMAIN f : f[id] \in TypedAnswers(findBlank(blanks, id).answer)}

InitGrade ==
  /\ lyrics \in GradeTexts
  /\ strategy = "important"
  /\ optBlankCount \in {<<1>>, <<2>>}
  /\ difficulty = "medium"
  /\ allWords = extractWords(lyrics)
  /\ blankCount = determineBlankCount(optBlankCount, difficulty, Len(allWords))
  /\ selectedBlanks \in selectBlanks(allWords, blankCount, strategy)
  /\ quizLyrics = generateQuizLyrics(lyrics, selectedBlanks)
  /\ quizBlanks = answerKey(selectedBlanks)
  /\ fields = inputFields(quizLyrics)
  /\ NotGrading
  /\ NotComparing
  /\ NoScores
  /\ view = "quiz"
  /\ selectedQuiz = <<[id |-> 1, blanks |-> quizBlanks]>>
  /\ score = <<>>
  /\ challengeData = <<>>
  /\ answers \in AnswerSheets(quizBlanks)
  /\ sharedQuiz = [status |-> "none"]
  /\ submitted = "no"
  /\ pc = "app"

\* App.handleQuizSubmit(answers): the score is computed, saved and shown;
\* saveScore returns true or false, which the handler ignores
HandleQuizSubmit ==
  LET quiz == selectedQuiz[1]
      data == scoreData(quiz.blanks, answers)
  IN  /\ userAnswers' = answers
      /\ correctAnswers' = scoreCorrect(quiz.blanks, answers)
      /\ \E stored \in BOOLEAN :
           IF stored
           THEN /\ scores' = saveScore(scores, quiz.id, data)
                /\ savedEntries' = savedEntries + 1
                /\ saveReturned' = "true"
           ELSE /\ UNCHANGED <<scores, savedEntries>>
                /\ saveReturned' = "false"
      /\ score' = <<data>>
      /\ view' = "results"
      /\ answers' = <<>>
      /\ UNCHANGED <<generatorVars, marks, compareVars, selectedQuiz, challengeData,
                     sharedQuiz, pc>>

\* the Submit Quiz button is enabled
CanSubmit ==
  /\ pc = "app"
  /\ quizShown(view, selectedQuiz)
  /\ filledCount(answers) # 0
  /\ savedEntries < MaxSubmissions

\* Object.keys(answers).length < quiz.blanks.length
AsksConfirmation == Cardinality(DOMAIN answers) < Len(selectedQuiz[1].blanks)

\* QuizView.handleSubmit: onSubmit is called without a confirmation dialog
SubmitDirect ==
  /\ CanSubmit
  /\ ~AsksConfirmation
  /\ submitted' = "direct"
  /\ HandleQuizSubmit

\* QuizView.handleSubmit: the user confirms the dialog, onSubmit is called
SubmitConfirmed ==
  /\ CanSubmit
  /\ AsksConfirmation
  /\ submitted' = "confirmed"
  /\ HandleQuizSubmit

\* QuizView.handleSubmit: the user cancels the dialog
SubmitDeclined ==
  /\ CanSubmit
  /\ AsksConfirmation
  /\ submitted' = "declined"
  /\ UNCHANGED <<generatorVars, gradingVars, compareVars, storageVars, view,
                 selectedQuiz, score, challengeData, answers, sharedQuiz, pc>>

\* Results.renderLyricsWithAnswers: every blank shown marked correct or wrong
RenderResults ==
  /\ pc = "app"
  /\ resultsShown(view, selectedQuiz, score)
  /\ ~renderThrows(quizLyrics, quizBlanks)
  /\ marks' = resultMarks(quizLyrics, quizBlanks, userAnswers)
  /\ pc' = "resultsShown"
  /\ UNCHANGED <<generatorVars, userAnswers, correctAnswers, compareVars,
                 storageVars, appVars>>

\* Results reads blank.answer of a match that has no record: TypeError
RenderResultsThrows ==
  /\ pc = "app"
  /\ resultsShown(view, selectedQuiz, score)
  /\ renderThrows(quizLyrics, quizBlanks)
  /\ pc' = "resultsError"
  /\ UNCHANGED <<generatorVars, gradingVars, compareVars,
                 storageVars, appVars>>

NextGrade ==
  \/ SubmitDirect
  \/ SubmitConfirmed
  \/ SubmitDeclined
  \/ RenderResults
  \/ RenderResultsThrows

SpecGrade == InitGrade /\ [][NextGrade]_vars

----------------------------------------------------------------------------
(* The app: a session of the user with App, SongSelector, QuizView and       *)
(* Results, and loadSharedQuiz running beside it                             *)

Love == <<"l", "o", "v", "e">>

Time == <<"t", "i", "m", "e">>

\* the quizzes of /data/quizzes: one blank, two blanks, and the quiz the
\* generator writes for lyrics without a candidate word, which has no blank
Quizzes ==
  {[id |-> 1, blanks |-> <<[id |-> 0, answer |-> Love]>>],
   [id |-> 2, blanks |-> <<[id |-> 0, answer |-> Love], [id |-> 1, answer |-> Time]>>],
   [id |-> 3, blanks |-> <<>>]}

\* a quiz that is no longer in index.json
RemovedQuiz == [id |-> 9, blanks |-> <<[id |-> 0, answer |-> Love]>>]

\* window.location.search: no quiz parameter, one that atob rejects, or the
\* parameter of a share url: of a listed quiz with and without a score, of the
\* quiz without blanks, of the removed quiz
UrlParams ==
  {[kind |-> "absent"], [kind |-> "malformed"]} \cup
  {[kind |-> "encoded", state |-> encodeQuizState(shared[1], shared[2])] :
     shared \in {<<CHOOSE q \in Quizzes : q.id = 1, <<>>>>,
                 <<CHOOSE q \in Quizzes : q.id = 1, <<scoreData(RemovedQuiz.blanks, (0 :> Love))>>>>,
                 <<CHOOSE q \in Quizzes : q.id = 3, <<>>>>,
                 <<RemovedQuiz, <<scoreData(RemovedQuiz.blanks, (0 :> Love))>>>>}}

\* what a user leaves in an input field: a word, or nothing after clearing it
Typed == {<<>>, Love}

InitApp ==
  /\ lyrics = <<>>
  /\ difficulty = "medium"
  /\ optBlankCount = <<>>
  /\ strategy = "random"
  /\ allWords = <<>>
  /\ blankCount = 0
  /\ selectedBlanks = <<>>
  /\ quizLyrics = <<>>
  /\ quizBlanks = <<>>
  /\ fields = <<>>
  /\ NotGrading
  /\ NotComparing
  /\ NoScores
  /\ NoApp
  /\ pc = "mount"

\* useEffect on mount: a shared quiz state is decoded and its loading started
MountApp ==
  /\ pc = "mount"
  /\ pc' = "app"
  /\ \E param \in UrlParams :
       LET decodedState == IF param.kind = "absent" THEN <<>> ELSE decodeQuizState(param)
       IN  IF decodedState = <<>>
           THEN UNCHANGED <<challengeData, sharedQuiz>>
           ELSE /\ challengeData' = decodedState
                /\ sharedQuiz' = [status |-> "index", quizId |-> decodedState[1].quizId]
  /\ UNCHANGED <<generatorVars, gradingVars, compareVars, storageVars, view,
                 selectedQuiz, score, answers, submitted>>

\* loadSharedQuiz after the index arrived: the quiz is looked up by id and
\* fetched, or the user is told that it could not be loaded
IndexLoaded ==
  /\ pc = "app"
  /\ sharedQuiz.status = "index"
  /\ LET quizInfo == {q \in Quizzes : q.id = sharedQuiz.quizId}
     IN  sharedQuiz' = IF quizInfo = {} THEN [status |-> "done"]
                       ELSE [status |-> "quiz", quiz |-> CHOOSE q \in quizInfo : TRUE]
  /\ UNCHANGED <<generatorVars, gradingVars, compareVars, storageVars, view,
                 selectedQuiz, score, challengeData, answers, submitted, pc>>

\* loadSharedQuiz after the quiz file arrived
QuizLoaded ==
  /\ pc = "app"
  /\ sharedQuiz.status = "quiz"
  /\ selectedQuiz' = <<sharedQuiz.quiz>>
  /\ view' = "quiz"
  /\ answers' = quizViewAnswers(quizShown(view, selectedQuiz), TRUE, answers, userAnswers)
  /\ sharedQuiz' = [status |-> "done"]
  /\ UNCHANGED <<generatorVars, gradingVars, compareVars, storageVars, score,
                 challengeData, submitted, pc>>

\* loadSharedQuiz: a fetch fails or answers with an error status
LoadSharedQuizFails ==
  /\ pc = "app"
  /\ sharedQuiz.status \in {"index", "quiz"}
  /\ sharedQuiz' = [status |-> "done"]
  /\ UNCHANGED <<generatorVars, gradingVars, compareVars, storageVars, view,
                 selectedQuiz, score, challengeData, answers, submitted, pc>>

\* the user picks a quiz in SongSelector
HandleQuizSelect ==
  /\ pc = "app"
  /\ view = "selector"
  /\ \E quiz \in Quizzes : selectedQuiz' = <<quiz>>
  /\ userAnswers' = <<>>
  /\ score' = <<>>
  /\ view' = "quiz"
  /\ answers' = <<>>
  /\ UNCHANGED <<generatorVars, correctAnswers, marks, compareVars, storageVars,
                 challengeData, sharedQuiz, submitted, pc>>

\* the user changes the text of an input field
HandleAnswerChange ==
  /\ pc = "app"
  /\ quizShown(view, selectedQuiz)
  /\ \E i \in 1..Len(selectedQuiz[1].blanks) : \E value \in Typed :
       answers' = setAnswer(answers, selectedQuiz[1].blanks[i].id, value)
  /\ UNCHANGED <<generatorVars, gradingVars, compareVars, storageVars, view,
                 selectedQuiz, score, challengeData, sharedQuiz, submitted, pc>>

\* Try Again in Results
HandleTryAgain ==
  /\ pc = "app"
  /\ resultsShown(view, selectedQuiz, score)
  /\ userAnswers' = <<>>
  /\ score' = <<>>
  /\ view' = "quiz"
  /\ answers' = <<>>
  /\ UNCHANGED <<generatorVars, correctAnswers, marks, compareVars, storageVars,
                 selectedQuiz, challengeData, sharedQuiz, submitted, pc>>

\* the page title, Back in QuizView or New Quiz in Results
HandleNewQuiz ==
  /\ pc = "app"
  /\ selectedQuiz' = <<>>
  /\ userAnswers' = <<>>
  /\ score' = <<>>
  /\ challengeData' = <<>>
  /\ view' = "selector"
  /\ answers' = <<>>
  /\ UNCHANGED <<generatorVars, correctAnswers, marks, compareVars, storageVars,
                 sharedQuiz, submitted, pc>>

NextApp ==
  \/ MountApp
  \/ IndexLoaded
  \/ QuizLoaded
  \/ LoadSharedQuizFails
  \/ HandleQuizSelect
  \/ HandleAnswerChange
  \/ SubmitDirect
  \/ SubmitConfirmed
  \/ SubmitDeclined
  \/ HandleTryAgain
  \/ HandleNewQuiz

SpecApp == InitApp /\ [][NextApp]_vars

----------------------------------------------------------------------------
(* Quizzes of every size up to MaxBlanks submitted with every number of      *)
(* right answers                                                             *)

\* a quiz of n blanks whose answers are all "love"
QuizOfSize(n) == [id |-> 1, blanks |-> [i \in 1..n |-> [id |-> i - 1, answer |-> Love]]]

\* every field filled, the first c of them with the right word
FilledSheet(n, c) == [id \in 0..(n - 1) |-> IF id < c THEN Love ELSE Time]

InitScore ==
  /\ lyrics = <<>>
  /\ difficulty = "medium"
  /\ optBlankCount = <<>>
  /\ strategy = "random"
  /\ allWords = <<>>
  /\ blankCount = 0
  /\ selectedBlanks = <<>>
  /\ quizLyrics = <<>>
  /\ quizBlanks = <<>>
  /\ fields = <<>>
  /\ NotGrading
  /\ NotComparing
  /\ NoScores
  /\ view = "quiz"
  /\ \E n \in 1..MaxBlanks : \E c \in 0..n :
       /\ selectedQuiz = <<QuizOfSize(n)>>
       /\ answers = FilledSheet(n, c)
  /\ score = <<>>
  /\ challengeData = <<>>
  /\ sharedQuiz = [status |-> "none"]
  /\ submitted = "no"
  /\ pc = "app"

NextScore == SubmitDirect

SpecScore == InitScore /\ [][NextScore]_vars

----------------------------------------------------------------------------
(* saveScore called again and again *)

StoredQuizIds == {1, 2}

\* the scoreData of a two-blank quiz answered half right and all right
ScoreInputs ==
  {[correct |-> 1, total |-> 2, percentage |-> 50, answers |-> (0 :> <<"a">>) @@ (1 :> <<"n", "o">>)],
   [correct |-> 2, total |-> 2, percentage |-> 100, answers |-> (0 :> <<"a">>) @@ (1 :> <<"a">>)]}

InitStorage ==
  /\ lyrics = <<>>
  /\ difficulty = "medium"
  /\ optBlankCount = <<>>
  /\ strategy = "random"
  /\ allWords = <<>>
  /\ blankCount = 0
  /\ selectedBlanks = <<>>
  /\ quizLyrics = <<>>
  /\ quizBlanks = <<>>
  /\ fields = <<>>
  /\ NotGrading
  /\ NotComparing
  /\ NoScores
  /\ NoApp
  /\ pc = "storage"

\* saveScore: the entry is written, true is returned
SaveScore ==
  /\ pc = "storage"
  /\ savedEntries < MaxSaves
  /\ \E quizId \in StoredQuizIds : \E data \in ScoreInputs :
       scores' = saveScore(scores, quizId, data)
  /\ savedEntries' = savedEntries + 1
  /\ saveReturned' = "true"
  /\ UNCHANGED <<generatorVars, gradingVars, compareVars, appVars, pc>>

\* saveScore: localStorage.setItem throws, nothing is written, false is returned
SaveScoreFails ==
  /\ pc = "storage"
  /\ saveReturned' = "false"
  /\ UNCHANGED <<generatorVars, gradingVars, compareVars, appVars, pc,
                 scores, savedEntries>>

NextStorage == SaveScore \/ SaveScoreFails

SpecStorage == InitStorage /\ [][NextStorage]_vars

----------------------------------------------------------------------------
(* compareAnswers and normalizeText applied to every pair of texts *)

AnswerChars ==
  {"a", "A", " ", "'", "-", "U+2019", "U+02BC", "U+00B4", "U+2013", "U+2014", "U+2212"}

\* undefined and every text of at most MaxAnswerLen characters
UserTexts ==
  {Undefined} \cup UNION {[1..k -> AnswerChars] : k \in 0..MaxAnswerLen}

\* undefined, the empty text, a, a'a, a-a
StoredTexts ==
  {Undefined, <<>>, <<"a">>, <<"a", "'", "a">>, <<"a", "-", "a">>}

InitCompare ==
  /\ userAnswer \in UserTexts
  /\ correctAnswer \in StoredTexts
  /\ equal = FALSE
  /\ normalized = <<>>
  /\ renormalized = <<>>
  /\ lyrics = <<>>
  /\ difficulty = "medium"
  /\ optBlankCount = <<>>
  /\ strategy = "random"
  /\ allWords = <<>>
  /\ blankCount = 0
  /\ selectedBlanks = <<>>
  /\ quizLyrics = <<>>
  /\ quizBlanks = <<>>
  /\ fields = <<>>
  /\ NotGrading
  /\ NoScores
  /\ NoApp
  /\ pc = "compare"

CallCompareAnswers ==
  /\ pc = "compare"
  /\ equal' = compareAnswers(userAnswer, correctAnswer)
  /\ normalized' = normalizeText(userAnswer)
  /\ pc' = "compared"
  /\ UNCHANGED <<generatorVars, gradingVars, userAnswer, correctAnswer, renormalized,
                 storageVars, appVars>>

\* normalizeText applied to its own result
CallNormalizeAgain ==
  /\ pc = "compared"
  /\ renormalized' = normalizeText(normalized)
  /\ pc' = "renormalized"
  /\ UNCHANGED <<generatorVars, gradingVars, userAnswer, correctAnswer, equal, normalized,
                 storageVars, appVars>>

NextCompare == CallCompareAnswers \/ CallNormalizeAgain

SpecCompare == InitCompare /\ [][NextCompare]_vars

----------------------------------------------------------------------------
(* Properties of the generated quiz (specification Spec) *)

Generated == pc \in {"written", "rendered", "renderError"}

\* does a text hold a literal match of the blank pattern
HasLiteralPlaceholder(text) ==
  \E k \in 1..Len(lineMatches(text)) : lineMatches(text)[k] # <<>>

\* a quiz line with every pattern match whose id is the id of a blank put back
\* to that blank's word
RECURSIVE Unsubstitute(_, _, _, _)
Unsubstitute(line, ms, from, blanks) ==
  IF ms = <<>> THEN Substring(line, from, Len(line))
  ELSE Substring(line, from, Head(ms).index)
       \o (IF Head(ms).blankId < Len(blanks)
             THEN blanks[Head(ms).blankId + 1].word
             ELSE Substring(line, Head(ms).index, Head(ms).end))
       \o Unsubstitute(line, Tail(ms), Head(ms).end, blanks)

RoundTrip(text, quizText, blanks) ==
  LET lines  == SplitLines(text)
      qlines == SplitLines(quizText)
  IN  /\ Len(qlines) = Len(lines)
      /\ \A k \in 1..Len(lines) :
           Unsubstitute(qlines[k], BlankMatches(qlines[k], 0), 0, blanks) = lines[k]

\* C1: for every text and the blanks selected on it, substituting each
\* placeholder of the generated quiz text back with the word of its blank
\* gives back every original line.
C1_RoundTrip == Generated => RoundTrip(lyrics, quizLyrics, selectedBlanks)

\* offset in the quiz line at which the encoder wrote the placeholder of blank i
WrittenAt(blanks, i) ==
  LET earlier == {j \in 1..Len(blanks) :
                    /\ blanks[j].lineIndex = blanks[i].lineIndex
                    /\ blanks[j].position < blanks[i].position}
      RECURSIVE Shift(_)
      Shift(S) == IF S = {} THEN 0
                  ELSE LET j == CHOOSE x \in S : TRUE
                       IN  Len(placeholder(j - 1)) - Len(blanks[j].word) + Shift(S \ {j})
  IN  blanks[i].position + Shift(earlier)

\* C2: the answer key has one record per blank, ids 0..n-1 in position order;
\* the placeholder with a record's id sits on line lineIndex of the quiz text
\* and answer is the original line's substring at [position, position + length).
C2_AnswerKeyPairing ==
  Generated =>
    /\ Len(quizBlanks) = Len(selectedBlanks)
    /\ \A i \in 1..Len(quizBlanks) : quizBlanks[i].id = i - 1
    /\ \A i \in 1..Len(quizBlanks) : \A j \in (i + 1)..Len(quizBlanks) :
         comparePosition(quizBlanks[i], quizBlanks[j]) < 0
    /\ \A i \in 1..Len(quizBlanks) :
         LET r     == quizBlanks[i]
             line  == SplitLines(lyrics)[r.lineIndex + 1]
             qline == SplitLines(quizLyrics)[r.lineIndex + 1]
         IN  /\ r.position + Len(r.answer) <= Len(line)
             /\ r.answer = Substring(line, r.position, r.position + Len(r.answer))
             /\ \E m \in 1..Len(BlankMatches(qline, 0)) :
                  /\ BlankMatches(qline, 0)[m].blankId = r.id
                  /\ BlankMatches(qline, 0)[m].index = WrittenAt(selectedBlanks, i)

C2_Witness ==
  /\ pc = "written"
  /\ Len(quizBlanks) >= 3
  /\ quizBlanks[1].lineIndex = quizBlanks[2].lineIndex
  /\ quizBlanks[2].lineIndex # quizBlanks[3].lineIndex

\* C3: for a source text without literal placeholder pattern, the quiz text
\* holds exactly n placeholders, each five underscores, the decimal id, five
\* underscores, with the ids 0..n-1 in ascending order when read line by
\* line, left to right.
C3_PlaceholderIdsInOrder ==
  (Generated /\ ~HasLiteralPlaceholder(lyrics)) =>
    /\ Flatten(inputFields(quizLyrics)) = [i \in 1..Len(selectedBlanks) |-> i - 1]
    /\ \A k \in 1..Len(lineMatches(quizLyrics)) :
         \A m \in 1..Len(lineMatches(quizLyrics)[k]) :
           LET mt == lineMatches(quizLyrics)[k][m]
           IN  Substring(SplitLines(quizLyrics)[k], mt.index, mt.end) = placeholder(mt.blankId)

C3_Witness ==
  /\ pc = "written"
  /\ ~HasLiteralPlaceholder(lyrics)
  /\ Len(selectedBlanks) >= 3
  /\ selectedBlanks[1].lineIndex = selectedBlanks[2].lineIndex
  /\ selectedBlanks[2].lineIndex # selectedBlanks[3].lineIndex

\* C10: every match of the blank pattern the renderer finds in a generated
\* quiz text is a placeholder the encoder wrote and has a record with its id
\* in the answer key.
C10_NoLiteralMisread ==
  Generated =>
    \A k \in 1..Len(lineMatches(quizLyrics)) :
      \A m \in 1..Len(lineMatches(quizLyrics)[k]) :
        LET mt == lineMatches(quizLyrics)[k][m]
        IN  /\ hasRecord(quizBlanks, mt.blankId)
            /\ \E i \in 1..Len(selectedBlanks) :
                 /\ selectedBlanks[i].lineIndex = k - 1
                 /\ mt.blankId = i - 1
                 /\ mt.index = WrittenAt(selectedBlanks, i)

\* the scenario of C7
AmazingGraceImportant2 ==
  /\ pc = "written"
  /\ lyrics = AmazingGrace
  /\ strategy = "important"
  /\ optBlankCount = <<2>>

SelectedWords == {selectedBlanks[i].word : i \in 1..Len(selectedBlanks)}

\* C7: for "Amazing grace how sweet the sound\n", strategy important and
\* count 2, the selected words are "Amazing" and "sound".
C7_AmazingSound ==
  AmazingGraceImportant2 =>
    SelectedWords = {<<"A","m","a","z","i","n","g">>, <<"s","o","u","n","d">>}

\* C7 (amended): for that text, strategy and count, the selected words are
\* "Amazing" and "grace", the first of the three five-letter words.
C7_AmazingGrace ==
  AmazingGraceImportant2 =>
    /\ Len(selectedBlanks) = 2
    /\ SelectedWords = {<<"A","m","a","z","i","n","g">>, <<"g","r","a","c","e">>}

C7_Witness == AmazingGraceImportant2 /\ Len(selectedBlanks) = 2

----------------------------------------------------------------------------
(* Properties of selectBlanks (specification SpecSelect) *)

Selected == pc = "selected"

InSelection(t) == \E i \in 1..Len(selectedBlanks) : selectedBlanks[i] = t

\* index of a token in the candidate list, its place in text order
TextOrder(t) == CHOOSE i \in 1..Len(allWords) : allWords[i] = t

\* C4: for every token list, count >= 0 and strategy, selectBlanks returns
\* exactly min(count, |T|) entries, each a distinct element of T.
C4_SelectionCount ==
  (Selected /\ blankCount >= 0) =>
    /\ Len(selectedBlanks) = Min(blankCount, Len(allWords))
    /\ \A i \in 1..Len(selectedBlanks) : selectedBlanks[i] \in Range(allWords)
    /\ \A i \in 1..Len(selectedBlanks) : \A j \in 1..Len(selectedBlanks) :
         i # j => selectedBlanks[i] # selectedBlanks[j]

C4_Witness ==
  /\ Selected
  /\ Len(allWords) >= 1
  /\ blankCount > Len(allWords)
  /\ Len(selectedBlanks) = Len(allWords)

\* C5: whatever the strategy, the returned sequence is sorted ascending by
\* (lineIndex, position).
C5_PositionOrder ==
  Selected =>
    \A i \in 1..Len(selectedBlanks) : \A j \in (i + 1)..Len(selectedBlanks) :
      \/ selectedBlanks[i].lineIndex < selectedBlanks[j].lineIndex
      \/ /\ selectedBlanks[i].lineIndex = selectedBlanks[j].lineIndex
         /\ selectedBlanks[i].position <= selectedBlanks[j].position

C5_Witness ==
  /\ Selected
  /\ strategy = "important"
  /\ Len(selectedBlanks) >= 3
  /\ selectedBlanks[2].length < selectedBlanks[3].length
  /\ selectedBlanks[2].lineIndex < selectedBlanks[3].lineIndex

\* C6: strategy important: no unselected token is longer than a selected one,
\* and of two tokens of equal length the one earlier in the text is chosen first.
C6_ImportantLongestFirst ==
  (Selected /\ strategy = "important" /\ blankCount >= 0) =>
    \A i \in 1..Len(selectedBlanks) : \A u \in 1..Len(allWords) :
      ~InSelection(allWords[u]) =>
        /\ allWords[u].length <= selectedBlanks[i].length
        /\ allWords[u].length = selectedBlanks[i].length
             => TextOrder(selectedBlanks[i]) < u

C6_Witness ==
  /\ Selected
  /\ strategy = "important"
  /\ \E i \in 1..Len(selectedBlanks) : \E u \in 1..Len(allWords) :
       /\ ~InSelection(allWords[u])
       /\ allWords[u].length = selectedBlanks[i].length
  /\ \E i \in 1..Len(selectedBlanks) : \E u \in 1..Len(allWords) :
       /\ ~InSelection(allWords[u])
       /\ u < TextOrder(selectedBlanks[i])

\* number of tokens of the full candidate list with the same lower-cased word
Frequency(t) ==
  Cardinality({i \in 1..Len(allWords) : toLowerCase(allWords[i].word) = toLowerCase(t.word)})

C9_UnknownStrategyIsRandom ==
  (Selected /\ strategy \notin KnownStrategies) =>
    /\ selectBlanks(allWords, blankCount, strategy) = selectBlanks(allWords, blankCount, "random")
    /\ selectedBlanks \in selectBlanks(allWords, blankCount, "random")
    /\ blankCount >= 0 => Len(selectedBlanks) = Min(blankCount, Len(allWords))
    /\ \A i \in 1..Len(selectedBlanks) : \A j \in (i + 1)..Len(selectedBlanks) :
         comparePosition(selectedBlanks[i], selectedBlanks[j]) < 0

C9_Witness ==
  /\ Selected
  /\ strategy \notin KnownStrategies
  /\ blankCount >= 1
  /\ blankCount < Len(allWords)
  /\ ~InSelection(allWords[1])

----------------------------------------------------------------------------
(* Properties of the quiz lines (specification Spec) *)

\* does sub occur in s
Occurs(sub, s) ==
  \E i \in 0..(Len(s) - Len(sub)) : SubSeq(s, i + 1, i + Len(sub)) = sub

\* the lines of the text that hold a selected blank, as 0-based indices
BlankLines == {selectedBlanks[i].lineIndex : i \in 1..Len(selectedBlanks)}

\* C15: the output of generateQuizLyrics has exactly as many lines as the
\* input, lines that contain no blank are unchanged, and line i of the output
\* corresponds to line i of the input: it holds the placeholders of the blanks
\* of line i.
C15_LinesPreserved ==
  Generated =>
    LET src == SplitLines(lyrics)
        out == SplitLines(quizLyrics)
    IN  /\ Len(out) = Len(src)
        /\ \A k \in 1..Len(src) : (k - 1) \notin BlankLines => out[k] = src[k]
        /\ \A i \in 1..Len(selectedBlanks) :
             Occurs(placeholder(i - 1), out[selectedBlanks[i].lineIndex + 1])

\* a text of several lines: one with a blank, a non-empty one without, an
\* empty one
C15_Witness ==
  /\ Generated
  /\ selectedBlanks # <<>>
  /\ \E k \in 1..Len(SplitLines(lyrics)) :
       (k - 1) \notin BlankLines /\ SplitLines(lyrics)[k] # <<>>
  /\ \E k \in 1..Len(SplitLines(lyrics)) : SplitLines(lyrics)[k] = <<>>

----------------------------------------------------------------------------
(* Properties of the tokenizer (specification SpecExtract) *)

Extracted == pc = "extracted"

\* text.split('\n')
LyricsLines == SplitLines(lyrics)

\* the returned tokens whose lineIndex is k
TokensOfLine(k) == {t \in Range(allWords) : t.lineIndex = k}

\* the line is one bracketed marker: "[", no bracket inside, "]"
SingleMarker(line) ==
  /\ Len(line) >= 2
  /\ line[1] = "["
  /\ line[Len(line)] = "]"
  /\ \A i \in 2..(Len(line) - 1) : line[i] \notin {"[", "]"}

\* the characters at 1-based places s..e are all letters, digits, _, ' or -
InClassSpan(line, s, e) == \A i \in s..e : InWordClass(line[i])

\* the word candidates of a line, as <<first place, last place>>: a span of
\* [\w'-] characters that starts and ends with a \w character and cannot be
\* extended to a further \w character on either side
Candidates(line) ==
  {c \in (1..Len(line)) \X (1..Len(line)) :
     /\ c[1] <= c[2]
     /\ InClassSpan(line, c[1], c[2])
     /\ IsWordChar(line[c[1]])
     /\ IsWordChar(line[c[2]])
     /\ ~\E j \in 1..(c[1] - 1) : IsWordChar(line[j]) /\ InClassSpan(line, j, c[1])
     /\ ~\E j \in (c[2] + 1)..Len(line) : IsWordChar(line[j]) /\ InClassSpan(line, c[2], j)}

StopList ==
  {<<"t","h","e">>, <<"a","n","d">>, <<"b","u","t">>, <<"f","o","r">>,
   <<"w","i","t","h">>, <<"f","r","o","m">>, <<"t","h","a","t">>,
   <<"t","h","i","s">>, <<"h","a","v","e">>, <<"h","a","s">>,
   <<"w","a","s">>, <<"w","e","r","e">>}

Qualifies(w) == Len(w) > 2 /\ toLowerCase(w) \notin StopList

\* the tokens of the qualifying candidates of the line with index k
ExpectedTokens(line, k) ==
  {[word |-> SubSeq(line, c[1], c[2]), lineIndex |-> k,
    position |-> c[1] - 1, length |-> c[2] - c[1] + 1] :
     c \in {d \in Candidates(line) : Qualifies(SubSeq(line, d[1], d[2]))}}

\* the line is scanned for candidates
Scanned(line) == ~IsBlankLine(line) /\ ~IsSectionMarker(line)

\* C11: a line emits no tokens when it is empty or whitespace-only or when the
\* entire line is a single bracketed marker; every other line is scanned; each
\* token's lineIndex is the index of its line in text.split('\n'), skipped
\* lines included ("[Chorus]\nLove is love\n" gives "Love", "love" on line 1).
C11_LineSkipping ==
  Extracted =>
    /\ \A t \in Range(allWords) : t.lineIndex \in 0..(Len(LyricsLines) - 1)
    /\ \A k \in 1..Len(LyricsLines) :
         IF IsBlankLine(LyricsLines[k]) \/ SingleMarker(LyricsLines[k])
         THEN TokensOfLine(k - 1) = {}
         ELSE TokensOfLine(k - 1) = ExpectedTokens(LyricsLines[k], k - 1)
    /\ lyrics = ChorusText =>
         allWords = <<[word |-> <<"L","o","v","e">>, lineIndex |-> 1, position |-> 0, length |-> 4],
                      [word |-> <<"l","o","v","e">>, lineIndex |-> 1, position |-> 8, length |-> 4]>>

\* C12: on a scanned line a word candidate is emitted as a token if and only if
\* it is longer than 2 characters and its lower-cased form is not in the stop
\* list; no returned token violates either condition.
C12_Filtering ==
  Extracted =>
    /\ \A k \in 1..Len(LyricsLines) :
         Scanned(LyricsLines[k]) =>
           TokensOfLine(k - 1) = ExpectedTokens(LyricsLines[k], k - 1)
    /\ \A t \in Range(allWords) :
         Len(t.word) > 2 /\ toLowerCase(t.word) \notin StopList

\* a scanned line with a kept candidate, one dropped for its length and one
\* dropped as a stop word written with a capital
C12_Witness ==
  /\ Extracted
  /\ \E k \in 1..Len(LyricsLines) :
       /\ Scanned(LyricsLines[k])
       /\ TokensOfLine(k - 1) # {}
       /\ \E c \in Candidates(LyricsLines[k]) : c[2] - c[1] + 1 <= 2
       /\ \E c \in Candidates(LyricsLines[k]) :
            LET w == SubSeq(LyricsLines[k], c[1], c[2])
            IN  w \notin StopList /\ toLowerCase(w) \in StopList

\* C13: for every token, with line the line of its lineIndex, length is the
\* length of word, position + length <= line.length, and the substring of the
\* line at position is word, casing and inner apostrophes/hyphens preserved.
C13_TokenSpan ==
  Extracted =>
    \A i \in 1..Len(allWords) :
      LET t    == allWords[i]
          line == LyricsLines[t.lineIndex + 1]
      IN  /\ t.lineIndex + 1 \in 1..Len(LyricsLines)
          /\ t.length = Len(t.word)
          /\ t.position >= 0
          /\ t.position + t.length <= Len(line)
          /\ Substring(line, t.position, t.position + t.length) = t.word

\* a token with an inner apostrophe that starts after the start of its line
C13_Witness ==
  /\ Extracted
  /\ \E i \in 1..Len(allWords) :
       /\ allWords[i].position > 0
       /\ "'" \in Range(allWords[i].word)
       /\ allWords[i].lineIndex > 0

\* C14: the returned sequence is strictly ascending by (lineIndex, position),
\* and two tokens of the same line never overlap.
C14_TextOrder ==
  Extracted =>
    \A i \in 1..Len(allWords) : \A j \in (i + 1)..Len(allWords) :
      \/ allWords[i].lineIndex < allWords[j].lineIndex
      \/ /\ allWords[i].lineIndex = allWords[j].lineIndex
         /\ allWords[i].position + allWords[i].length <= allWords[j].position

\* tokens that share a line followed by a token of a later line
C14_Witness ==
  /\ Extracted
  /\ \E i \in 1..(Len(allWords) - 2) :
       /\ allWords[i].lineIndex = allWords[i + 1].lineIndex
       /\ allWords[i + 1].lineIndex < allWords[i + 2].lineIndex

----------------------------------------------------------------------------
(* Properties of answer comparison (specifications SpecGrade, SpecCompare) *)

\* the text without its leading whitespace
RECURSIVE StripLeft(_)
StripLeft(s) ==
  IF s # <<>> /\ IsWhitespace(s[1]) THEN StripLeft(Tail(s)) ELSE s

\* the text without its trailing whitespace
RECURSIVE StripRight(_)
StripRight(s) ==
  IF s # <<>> /\ IsWhitespace(s[Len(s)]) THEN StripRight(SubSeq(s, 1, Len(s) - 1)) ELSE s

\* the text without its leading and trailing whitespace
Trimmed(s) == StripRight(StripLeft(s))

\* a character lower-cased, an apostrophe variant as ', a dash variant as -
CanonicalChar(c) ==
  CASE c \in {"U+2019", "U+02BC", "U+00B4"} -> "'"
    [] c \in {"U+2013", "U+2014", "U+2212"} -> "-"
    [] OTHER -> ToLowerChar(c)

\* the normal form of a text; the empty text for undefined
Canonical(s) ==
  IF s = Undefined THEN <<>>
  ELSE LET t == Trimmed(s)
       IN  [i \in 1..Len(t) |-> CanonicalChar(t[i])]

ResultsShown == pc = "resultsShown"

\* the text the user gave for a blank, the empty text when none
Given(id) == IF id \in DOMAIN userAnswers THEN userAnswers[id] ELSE <<>>

\* C16: for every blank and every user input the Results view marks the blank
\* correct if and only if scoring counted it correct, both by the normalized
\* comparison (an answer typed with U+2019 for ' is counted and displayed as
\* correct).
C16_MarksAgreeWithScore ==
  ResultsShown =>
    \A i \in 1..Len(quizBlanks) :
      LET id == quizBlanks[i].id
      IN  /\ id \in DOMAIN marks
          /\ marks[id] <=> id \in correctAnswers
          /\ marks[id] <=> Canonical(Given(id)) = Canonical(quizBlanks[i].answer)

Compared == pc \in {"compared", "renormalized"}

\* the two texts differ only in case, surrounding whitespace or variants
SameButForVariants(a, b) == Canonical(a) = Canonical(b)

\* C17: compareAnswers(a, b) is true exactly when normalizeText(a) equals
\* normalizeText(b): texts that differ only in case, surrounding whitespace or
\* apostrophe/dash variants are equal, texts whose normal forms differ are
\* not, and a missing or empty answer on either side counts as the empty text.
C17_CompareIsNormalizedEquality ==
  Compared =>
    /\ equal <=> normalizeText(userAnswer) = normalizeText(correctAnswer)
    /\ equal <=> SameButForVariants(userAnswer, correctAnswer)
    /\ Falsy(userAnswer) => (equal <=> normalizeText(correctAnswer) = <<>>)
    /\ Falsy(correctAnswer) => (equal <=> normalizeText(userAnswer) = <<>>)

\* a text that differs from the stored one in case and in an apostrophe
\* variant and is found equal
C17_Witness ==
  /\ Compared
  /\ equal
  /\ ~Falsy(correctAnswer)
  /\ userAnswer # correctAnswer
  /\ toLowerCase(userAnswer) # userAnswer
  /\ \E i \in 1..Len(userAnswer) : userAnswer[i] \in {"U+2019", "U+02BC", "U+00B4"}

\* C18: normalizeText is idempotent.
C18_Idempotent ==
  pc = "renormalized" =>
    /\ normalized = normalizeText(userAnswer)
    /\ renormalized = normalized

\* a text that normalizeText changed, normalized twice
C18_Witness ==
  /\ pc = "renormalized"
  /\ userAnswer # Undefined
  /\ normalized # userAnswer
  /\ normalized # <<>>
  /\ Len(normalized) < Len(userAnswer)

\* C19: normalizeText(s) is s trimmed of leading and trailing whitespace,
\* lower-cased, U+2019, U+02BC, U+00B4 replaced by ' and U+2013, U+2014, U+2212
\* by -, every other character left as it is; empty or undefined input gives
\* the empty text.
C19_NormalForm ==
  Compared =>
    /\ normalized = Canonical(userAnswer)
    /\ Falsy(userAnswer) => normalized = <<>>
    /\ normalizeText(correctAnswer) = Canonical(correctAnswer)

\* a text with a capital, an acute accent and a minus sign, normalized
C19_Witness ==
  /\ Compared
  /\ userAnswer # Undefined
  /\ "A" \in Range(userAnswer)
  /\ "U+00B4" \in Range(userAnswer)
  /\ "U+2212" \in Range(userAnswer)
  /\ Len(normalized) = Len(userAnswer)

----------------------------------------------------------------------------
(* Properties of the blank count (specification SpecCount) *)

Counted == pc = "counted"

\* the ratios of the difficulty presets, in hundredths
PresetPercent == [easy |-> 10, medium |-> 20, hard |-> 35]

\* min(n, max(5, floor(n * r))), in exact arithmetic
PresetCount(n, d) == Min(n, Max(5, (n * PresetPercent[d]) \div 100))

\* C20: without an explicit blank count, the count requested for n candidate
\* tokens is min(n, max(5, floor(n * r))) with r = 0.10, 0.20, 0.35 for easy,
\* medium, hard; it never exceeds n, is at least 5 when n >= 5, and is 0 when
\* there are no candidates.
C20_DifficultyCount ==
  (Counted /\ optBlankCount = <<>> /\ difficulty \in Difficulties) =>
    /\ blankCount = PresetCount(Len(allWords), difficulty)
    /\ blankCount <= Len(allWords)
    /\ Len(allWords) >= 5 => blankCount >= 5
    /\ Len(allWords) = 0 => blankCount = 0

\* C21: whenever --blank-count N is supplied with a non-negative integer N, the
\* quiz gets exactly min(N, number of candidate tokens) blanks, whatever
\* --difficulty is; the difficulty ratio is used only when the option is absent.
C21_CountOverridesPreset ==
  (Counted /\ optBlankCount # <<>> /\ optBlankCount[1] >= 0) =>
    blankCount = Min(optBlankCount[1], Len(allWords))

----------------------------------------------------------------------------
(* Further properties of selectBlanks (specification SpecSelect) *)

\* C22: a negative count passed to selectBlanks is rejected with an error: the
\* call never returns a selection for it.
C22_NegativeCountRejected == ~(Selected /\ blankCount < 0)

\* C24: two runs of selectBlanks on the same tokens, count and strategy return
\* the same selection: every value the call can return is the value returned.
C24_SameRunsSameSelection ==
  Selected => \A other \in selectBlanks(allWords, blankCount, strategy) : other = selectedBlanks

----------------------------------------------------------------------------
(* Properties of the token list (specification SpecFrame) *)

\* C23: selectBlanks and generateQuizLyrics leave the token list they are
\* given, its order and length and every token in it, unchanged: after either
\* call the list is still the extraction result, and the selected tokens are
\* tokens of that list without any added field.
C23_TokensUnchanged ==
  pc \in {"blanksSelected", "lyricsGenerated"} =>
    /\ allWords = extractWords(lyrics)
    /\ selectedBlanks \in selectBlanks(extractWords(lyrics), blankCount, strategy)
    /\ \A i \in 1..Len(selectedBlanks) : selectedBlanks[i] \in Range(allWords)

\* both calls made, with a selection whose strategy order differs from the
\* extraction order
C23_Witness ==
  /\ pc = "lyricsGenerated"
  /\ Len(allWords) >= 2
  /\ selectedBlanks # <<>>
  /\ selectedBlanks[1] # allWords[1]
  /\ quizLyrics # lyrics

----------------------------------------------------------------------------
(* Properties of the score history (specification SpecStorage) *)

\* a saveScore call has just written an entry
EntryWritten == savedEntries' = savedEntries + 1

\* the history of quiz q after the step is the history before it with one
\* entry of q appended, cut to its last 10 entries
AppendedTo(q) ==
  LET old == getQuizScores(scores, q)
      new == getQuizScores(scores', q)
      n   == Len(new)
  IN  /\ n = Min(Len(old) + 1, 10)
      /\ new[n].quizId = q
      /\ SubSeq(new, 1, n - 1) = SubSeq(old, Len(old) - (n - 1) + 1, Len(old))
      /\ DOMAIN scores' = DOMAIN scores \cup {q}
      /\ \A other \in DOMAIN scores \ {q} : scores'[other] = scores[other]

\* C25: after any sequence of saveScore calls each quiz id holds at most 10
\* entries, the most recently saved ones in chronological order; every
\* successful call appends exactly one entry for its quiz id and leaves the
\* entries of other quiz ids unchanged.
C25_HistoryBound ==
  /\ [](\A q \in DOMAIN scores : Len(scores[q]) \in 1..10)
  /\ [][EntryWritten => \E q \in StoredQuizIds : AppendedTo(q)]_vars
  /\ [][~EntryWritten => scores' = scores]_vars

\* eleven entries saved for quiz 1, of which the first is gone, one for quiz 2
C25_Witness ==
  /\ savedEntries = 12
  /\ DOMAIN scores = {1, 2}
  /\ Len(scores[1]) = 10
  /\ Len(scores[2]) = 1
  /\ scores[1][1].percentage # scores[1][10].percentage

\* the percentage of getBestScore, below every percentage when it is null
BestPercentage(allScores, q) ==
  IF getBestScore(allScores, q) = <<>> THEN -1
  ELSE getBestScore(allScores, q)[1].percentage

\* C26: the percentage of getBestScore(quizId) never decreases from one
\* saveScore call to the next and is at least the percentage just saved;
\* getBestScore returns null only when nothing was saved for that quiz.
C26_BestNeverRegresses ==
  /\ [][\A q \in StoredQuizIds :
          /\ BestPercentage(scores', q) >= BestPercentage(scores, q)
          /\ \A i \in 1..Len(getQuizScores(scores', q)) :
               BestPercentage(scores', q) >= scores'[q][i].percentage]_vars
  /\ [](\A q \in StoredQuizIds : getBestScore(scores, q) = <<>> <=> q \notin DOMAIN scores)

----------------------------------------------------------------------------
(* Properties of the scores of the app (specification SpecScore) *)

\* round(100 * correct / total), halves upwards
ExactPercent(correct, total) == (200 * correct + total) \div (2 * total)

\* a scoreData or a stored entry of a quiz of n blanks is well-formed
WellFormed(d, n) ==
  /\ d.total = n
  /\ n >= 1
  /\ d.correct \in 0..n
  /\ d.percentage \in 0..100
  /\ d.percentage = ExactPercent(d.correct, n)

\* C27: every score that a submission produces, shown in Results and saved
\* to storage, is well-formed: total is the quiz's number of blanks and at
\* least 1, 0 <= correct <= total, and percentage is the integer
\* round(100 * correct / total) in 0..100.
C27_ScoresWellFormed ==
  /\ score # <<>> => WellFormed(score[1], Len(selectedQuiz[1].blanks))
  /\ \A q \in DOMAIN scores : \A i \in 1..Len(scores[q]) :
       WellFormed(scores[q][i], Len(selectedQuiz[1].blanks))

----------------------------------------------------------------------------
(* Properties of the app (specification SpecApp) *)

\* C28: handleSubmit calls onSubmit without asking for confirmation only if
\* every blank of the quiz has a non-empty answer.
C28_DirectSubmitIsComplete ==
  (resultsShown(view, selectedQuiz, score) /\ submitted = "direct") =>
    \A i \in 1..Len(selectedQuiz[1].blanks) :
      orEmpty(answerOf(userAnswers, selectedQuiz[1].blanks[i].id)) # <<>>

\* QuizView shows a quiz after the step that it did not show before it
NewlyShown ==
  /\ quizShown(view', selectedQuiz')
  /\ ~quizShown(view, selectedQuiz) \/ selectedQuiz' # selectedQuiz

\* C29: whenever the app switches to the quiz view, the answers handed to
\* QuizView as initialAnswers are empty, and the fields of a quiz never start
\* with answers entered for another quiz.
C29_NoAnswersLeak ==
  [][NewlyShown => (userAnswers' = <<>> /\ answers' = <<>>)]_vars

\* C30: whenever QuizView or Results receives a non-null challengeScore, the
\* id of the selected quiz is the quizId decoded from the shared url.
C30_ChallengeOnItsQuiz ==
  ( /\ quizShown(view, selectedQuiz) \/ resultsShown(view, selectedQuiz, score)
    /\ challengeData # <<>>
    /\ challengeData[1].score # <<>> )
  => selectedQuiz[1].id = challengeData[1].quizId

====
